---------------------------- MODULE Spec2Model ----------------------------
(***************************************************************************)
(* The FaceDetectionAdvanced component of cam-face-buddy together with the *)
(* hosted "faces" table it talks to.                                       *)
(*                                                                         *)
(* Three parts are modelled:                                               *)
(*   - the backend: the public.faces table and its row level security      *)
(*     policies (the SQL migration), reachable by this page and by any     *)
(*     other client holding the public API key;                            *)
(*   - the persistence glue of the component: the session effects,         *)
(*     loadSavedFaces, handleSaveFace, handleDeleteFace, with every        *)
(*     request in flight between the call and its continuation;            *)
(*   - the camera life cycle: toggleCamera, startCamera, stopCamera,       *)
(*     startDetection and detectFaces.                                     *)
(*                                                                         *)
(* The component is a React function component.  Every function declared  *)
(* in its body is re-created on each render and reads the state values of  *)
(* the render it was created in.  An asynchronous continuation therefore   *)
(* keeps the values of the render in which the call started; the model     *)
(* carries those captured values ("closures") in the pending call.  Refs   *)
(* (streamRef, currentDescriptorRef, videoRef) are read at the time of     *)
(* use.                                                                    *)
(***************************************************************************)
EXTENDS Integers, Sequences, FiniteSets, TLC

(***************************************************************************)
(* Bounds of the model.                                                    *)
(***************************************************************************)
MaxRows == 2        \* rows ever inserted into the table (ids are never reused)
MaxInflight == 1    \* requests of this page in flight at once (window)
MaxStreams == 2     \* media streams ever handed out by getUserMedia
MaxPending == 2     \* getUserMedia calls pending at once

(***************************************************************************)
(* Values.                                                                 *)
(***************************************************************************)
Users == {"u1", "u2"}
NoUser == "none"                    \* session = null, auth.uid() = NULL
Identities == Users \cup {NoUser}

\* Strings are sequences of characters, so that trim() can be computed.
Names == {<<"a">>, <<"b">>}
NameInputs == {<<>>, <<" ">>, <<"a">>, <<" ", "b">>}

\* Face descriptors: numeric vectors produced by the external model.
Descriptors == {<<1, 2>>, <<2, 1>>}
NoDescriptor == <<>>                \* currentDescriptorRef.current = null

NoError == "ok"
ServiceError == "service unavailable"
PolicyError == "new row violates row-level security policy"
LibraryError == "failed to fetch model"
CameraError == "Permission denied"

NoStream == 0
NoToast == [title |-> "", description |-> "", name |-> <<>>]

VARIABLES
  \* ---- backend
  table,            \* rows of public.faces
  nextId,           \* rows inserted so far (uuid / created_at source)
  api,              \* what the last insert of another client returned
  window,           \* requests of this page the connection takes at once
  \* ---- network between this page and the backend
  net,              \* requests and responses of this page in flight
  \* ---- component state (useState)
  isModelLoaded, isCameraOn, faceCount, isDetecting, currentEmotion,
  matchedFace, savedFaces, faceName, showSaveInput, session,
  \* ---- component refs (useRef)
  streamRef, currentDescriptorRef,
  \* ---- browser side
  mounted,          \* the component is mounted (videoRef / canvasRef are set)
  modelsLoading,    \* loadModels is awaiting Promise.all
  gumPending,       \* closures of the startCamera calls awaiting getUserMedia
  streams,          \* stream id -> "live" | "stopped"
  srcObject,        \* video.srcObject
  onloadedmetadata, \* closure of the installed handler, or NoHandler
  metadataPending,  \* loadedmetadata is due for the current srcObject
  detecting,        \* detectFaces calls awaiting the detector or a frame
  \* ---- the last operation that completed or showed a toast:
  \*      [op, error, toast], toast being what it showed (NoToast: nothing)
  outcome

dbVars == <<table, nextId, api, window>>
stateVars == <<isModelLoaded, isCameraOn, faceCount, isDetecting,
               currentEmotion, matchedFace, savedFaces, faceName,
               showSaveInput, session>>
refVars == <<streamRef, currentDescriptorRef>>
camVars == <<gumPending, streams, srcObject, onloadedmetadata,
             metadataPending, detecting>>
vars == <<dbVars, net, stateVars, refVars, mounted, modelsLoading,
          camVars, outcome>>


(***************************************************************************)
(* The backend: public.faces and its row level security policies.          *)
(***************************************************************************)

\* CREATE TABLE public.faces: id and created_at are issued by the database;
\* inserted_by is not a column: it records auth.uid() of the inserting request.
NewRow(uid, payload) ==
  [id |-> nextId + 1, user_id |-> payload.user_id, name |-> payload.name,
   descriptor |-> payload.descriptor, created_at |-> nextId + 1,
   inserted_by |-> uid]

\* The table without its policies (mutants of the three below).
PolicySelectMissing(uid, row) == TRUE

PolicyInsertMissing(uid, row) == TRUE

PolicyDeleteMissing(uid, row) == TRUE

\* auth.uid() = user_id; auth.uid() is NULL without a session and NULL = x
\* is not true.
PolicySelect(uid, row) == uid # NoUser /\ uid = row.user_id

PolicyInsert(uid, row) == uid # NoUser /\ uid = row.user_id

PolicyDelete(uid, row) == uid # NoUser /\ uid = row.user_id

\* .order('created_at', { ascending: false })
RECURSIVE OrderDesc(_)
OrderDesc(S) ==
  IF S = {} THEN <<>>
  ELSE LET newest == CHOOSE r \in S : \A q \in S : q.created_at <= r.created_at
       IN <<newest>> \o OrderDesc(S \ {newest})

\* select('*').eq('user_id', user).order(...) issued by identity uid
DbSelect(uid, user) ==
  OrderDesc({r \in table : PolicySelect(uid, r) /\ r.user_id = user})

\* insert(payload) issued by identity uid: the table afterwards
DbInsertAllowed(uid, payload) == PolicyInsert(uid, payload)

DbInsert(uid, payload) ==
  IF DbInsertAllowed(uid, payload)
    THEN table \cup {NewRow(uid, payload)}
    ELSE table

\* delete().eq('id', id) issued by identity uid: the table afterwards.
\* A delete that matches no visible row succeeds and removes nothing.
DbDelete(uid, id) ==
  table \ {r \in table : r.id = id /\ PolicyDelete(uid, r)}

RowIds == 1..MaxRows

(***************************************************************************)
(* Other clients of the backend (any holder of the public API key, with    *)
(* any identity or none).                                                  *)
(***************************************************************************)
NoApiResult == "none"

\* insert(payload) sent by a client signed in as uid (or not signed in);
\* api is the error it got back (NoError: the row was inserted).
ApiInsert(uid, payload) ==
  /\ nextId < MaxRows
  /\ table' = DbInsert(uid, payload)
  /\ nextId' = IF DbInsertAllowed(uid, payload) THEN nextId + 1 ELSE nextId
  /\ api' = IF DbInsertAllowed(uid, payload) THEN NoError ELSE PolicyError

\* delete().eq('id', id) sent by a client signed in as uid (or not signed in)
ApiDelete(uid, id) ==
  /\ table' = DbDelete(uid, id)
  /\ UNCHANGED <<nextId, api>>

\* What the other clients insert.
OtherPayloads ==
  [user_id : Users, name : {<<"a">>}, descriptor : {<<1, 2>>}]

OtherClient ==
  /\ \/ \E uid \in Identities, p \in OtherPayloads : ApiInsert(uid, p)
     \/ \E uid \in Identities, id \in RowIds : ApiDelete(uid, id)
  /\ UNCHANGED <<window, net, stateVars, refVars, mounted, modelsLoading,
                 camVars, outcome>>

(***************************************************************************)
(* Requests of this page.  A request carries the identity of the client's  *)
(* session when it is sent (uid) and what its continuation captured: cs,   *)
(* the session of the render in which the handler was created.             *)
(***************************************************************************)
NoPayload == [user_id |-> NoUser, name |-> <<>>, descriptor |-> <<>>]

Request(op, uid, user, id, payload, cs) ==
  [op |-> op, stage |-> "request", uid |-> uid, user |-> user, id |-> id,
   payload |-> payload, cs |-> cs, error |-> NoError, rows |-> <<>>]

Response(m, error, rows) ==
  [m EXCEPT !.stage = "response", !.error = error, !.rows = rows]

\* The backend serves one request of this page.
ServeSelect(m) ==
  /\ m \in net /\ m.stage = "request" /\ m.op = "select"
  /\ net' = (net \ {m}) \cup {Response(m, NoError, DbSelect(m.uid, m.user))}
  /\ UNCHANGED <<dbVars, stateVars, refVars, mounted, modelsLoading, camVars,
                 outcome>>

ServeInsert(m) ==
  /\ m \in net /\ m.stage = "request" /\ m.op = "insert"
  /\ nextId < MaxRows
  /\ table' = DbInsert(m.uid, m.payload)
  /\ nextId' = IF DbInsertAllowed(m.uid, m.payload) THEN nextId + 1
                                                    ELSE nextId
  /\ net' = (net \ {m}) \cup
              {Response(m, IF DbInsertAllowed(m.uid, m.payload)
                             THEN NoError ELSE PolicyError, <<>>)}
  /\ UNCHANGED <<api, window, stateVars, refVars, mounted, modelsLoading,
                 camVars, outcome>>

ServeDelete(m) ==
  /\ m \in net /\ m.stage = "request" /\ m.op = "delete"
  /\ table' = DbDelete(m.uid, m.id)
  /\ net' = (net \ {m}) \cup {Response(m, NoError, <<>>)}
  /\ UNCHANGED <<nextId, api, window, stateVars, refVars, mounted,
                 modelsLoading, camVars, outcome>>

\* The request fails on its way or in the service.
ServeFails(m) ==
  /\ m \in net /\ m.stage = "request"
  /\ net' = (net \ {m}) \cup {Response(m, ServiceError, <<>>)}
  /\ UNCHANGED <<dbVars, stateVars, refVars, mounted, modelsLoading, camVars,
                 outcome>>


(***************************************************************************)
(* Toasts and the record of the last completed operation.                  *)
(***************************************************************************)
\* toast({ title, description }); name is the part of the description that
\* is interpolated from faceName.
Toast(title, description) ==
  [title |-> title, description |-> description, name |-> <<>>]

Outcome(op, error, shown) == [op |-> op, error |-> error, toast |-> shown]

NoOutcome == Outcome("none", NoError, NoToast)

(***************************************************************************)
(* Session effects and loadSavedFaces.                                     *)
(***************************************************************************)

\* loadSavedFaces of a render whose session is cs, called while the client
\* is signed in as uid: the request it sends, if any.
LoadSavedFacesRequest(cs, uid) ==
  IF cs = NoUser THEN {}
  ELSE {Request("select", uid, cs, 0, NoPayload, cs)}

\* onAuthStateChange / getSession().then: setSession(s), then the effect on
\* [session] of the next render calls loadSavedFaces if there is a session.
AuthStateChange(s) ==
  /\ mounted
  /\ session' = s
  /\ net' = net \cup LoadSavedFacesRequest(s, s)
  /\ Cardinality(net') <= window
  /\ UNCHANGED <<dbVars, isModelLoaded, isCameraOn, faceCount, isDetecting,
                 currentEmotion, matchedFace, savedFaces, faceName,
                 showSaveInput, refVars, mounted, modelsLoading, camVars,
                 outcome>>

\* The continuation of loadSavedFaces after the await.
LoadSavedFacesResume(m) ==
  /\ m \in net /\ m.stage = "response" /\ m.op = "select"
  /\ net' = net \ {m}
  /\ IF m.error # NoError
       THEN \* console.error only
            UNCHANGED savedFaces
       ELSE savedFaces' = IF mounted THEN m.rows ELSE savedFaces
  /\ outcome' = Outcome("loadSavedFaces", m.error, NoToast)
  /\ UNCHANGED <<dbVars, isModelLoaded, isCameraOn, faceCount, isDetecting,
                 currentEmotion, matchedFace, faceName, showSaveInput,
                 session, refVars, mounted, modelsLoading, camVars>>

(***************************************************************************)
(* handleDeleteFace.                                                       *)
(***************************************************************************)
SavedIds == {savedFaces[i].id : i \in 1..Len(savedFaces)}

\* .delete().eq('id', id): the request names the row id and nothing else.
DeleteRequest(id, uid, cs) == Request("delete", uid, NoUser, id, NoPayload, cs)

\* A click on the trash button of a listed face; the list is rendered when
\* session && savedFaces.length > 0.
HandleDeleteFace(id) ==
  /\ mounted /\ session # NoUser /\ id \in SavedIds
  /\ Cardinality(net) < window
  /\ net' = net \cup {DeleteRequest(id, session, session)}
  /\ UNCHANGED <<dbVars, stateVars, refVars, mounted, modelsLoading, camVars,
                 outcome>>

\* A fixed text in place of the error's message (a mutant of
\* DeleteFailedToast).
DeleteFailedToastFixed(error) == Toast("Delete Failed", "Please try again")

DeleteFailedToast(error) == Toast("Delete Failed", error)

\* The continuation of handleDeleteFace after the await; its loadSavedFaces
\* is the one of the render in which the button was clicked.
HandleDeleteFaceResume(m) ==
  /\ m \in net /\ m.stage = "response" /\ m.op = "delete"
  /\ IF m.error # NoError
       THEN /\ outcome' = Outcome("deleteFace", m.error,
                                  DeleteFailedToast(m.error))
            /\ net' = net \ {m}
       ELSE /\ outcome' = Outcome("deleteFace", NoError,
                            Toast("Face Deleted", "Face removed successfully"))
            /\ net' = (net \ {m}) \cup LoadSavedFacesRequest(m.cs, session)
  /\ UNCHANGED <<dbVars, stateVars, refVars, mounted, modelsLoading, camVars>>

(***************************************************************************)
(* handleSaveFace and the controls in front of it.                         *)
(***************************************************************************)
IsSpace(c) == c = " "

\* String.prototype.trim
RECURSIVE TrimStart(_)
TrimStart(str) ==
  IF str # <<>> /\ IsSpace(Head(str)) THEN TrimStart(Tail(str)) ELSE str

RECURSIVE TrimEnd(_)
TrimEnd(str) ==
  IF str # <<>> /\ IsSpace(str[Len(str)])
    THEN TrimEnd(SubSeq(str, 1, Len(str) - 1))
    ELSE str

\* trim() that strips nothing (a mutant of Trim).
TrimNothing(str) == str

Trim(str) == TrimEnd(TrimStart(str))

\* A copy with the elements in reverse order (a mutant of ArrayFrom).
ArrayFromReversed(d) == [i \in 1..Len(d) |-> d[Len(d) + 1 - i]]

\* Array.from(Float32Array): a new array with the same elements in order
ArrayFrom(d) == [i \in 1..Len(d) |-> d[i]]

InsertPayload(user, name, descriptor) ==
  [user_id |-> user, name |-> name, descriptor |-> ArrayFrom(descriptor)]

\* handleSaveFace without its session check (a mutant of SaveRejection).
SaveRejectionNoSession ==
  IF currentDescriptorRef = NoDescriptor
    THEN Toast("No Face Detected",
               "Please position your face in front of the camera")
  ELSE IF Trim(faceName) = <<>>
    THEN Toast("Name Required", "Please enter a name for this face")
  ELSE NoToast

\* The three checks of handleSaveFace, in their order: the toast of the
\* first one that fails, or NoToast when the insert is to be sent.
SaveRejection ==
  IF session = NoUser
    THEN Toast("Authentication Required", "Please sign in to save faces")
  ELSE IF currentDescriptorRef = NoDescriptor
    THEN Toast("No Face Detected",
               "Please position your face in front of the camera")
  ELSE IF Trim(faceName) = <<>>
    THEN Toast("Name Required", "Please enter a name for this face")
  ELSE NoToast

\* A click on Save; the button is rendered when showSaveInput.
HandleSaveFace ==
  /\ mounted /\ showSaveInput
  /\ IF SaveRejection # NoToast
       THEN /\ outcome' = Outcome("saveFace", NoError, SaveRejection)
            /\ UNCHANGED net
       ELSE /\ Cardinality(net) < window
            /\ net' = net \cup
                 {Request("insert", session, NoUser, 0,
                          InsertPayload(session, faceName,
                                        currentDescriptorRef), session)}
            /\ UNCHANGED outcome
  /\ UNCHANGED <<dbVars, stateVars, refVars, mounted, modelsLoading, camVars>>

SaveFailedToast(error) == Toast("Save Failed", error)

\* The continuation of handleSaveFace after the await.  faceName in the
\* toast is the one of the render in which Save was clicked: the one that
\* was sent.
HandleSaveFaceResume(m) ==
  /\ m \in net /\ m.stage = "response" /\ m.op = "insert"
  /\ IF m.error # NoError
       THEN /\ outcome' = Outcome("saveFace", m.error,
                                  SaveFailedToast(m.error))
            /\ net' = net \ {m}
            /\ UNCHANGED <<faceName, showSaveInput>>
       ELSE /\ outcome' = Outcome("saveFace", NoError,
                            [title |-> "Face Saved",
                             description |-> "has been saved successfully",
                             name |-> m.payload.name])
            /\ faceName' = IF mounted THEN <<>> ELSE faceName
            /\ showSaveInput' = IF mounted THEN FALSE ELSE showSaveInput
            /\ net' = (net \ {m}) \cup LoadSavedFacesRequest(m.cs, session)
  /\ UNCHANGED <<dbVars, isModelLoaded, isCameraOn, faceCount, isDetecting,
                 currentEmotion, matchedFace, savedFaces, session, refVars,
                 mounted, modelsLoading, camVars>>

\* The Save Face button: rendered when isCameraOn && session, disabled
\* while currentDescriptorRef.current is null.
ToggleSaveInput ==
  /\ mounted /\ isCameraOn /\ session # NoUser
  /\ currentDescriptorRef # NoDescriptor
  /\ showSaveInput' = ~showSaveInput
  /\ UNCHANGED <<dbVars, net, isModelLoaded, isCameraOn, faceCount,
                 isDetecting, currentEmotion, matchedFace, savedFaces,
                 faceName, session, refVars, mounted, modelsLoading, camVars,
                 outcome>>

\* Typing into the name input, rendered when showSaveInput.
SetFaceName(v) ==
  /\ mounted /\ showSaveInput
  /\ faceName' = v
  /\ UNCHANGED <<dbVars, net, isModelLoaded, isCameraOn, faceCount,
                 isDetecting, currentEmotion, matchedFace, savedFaces,
                 showSaveInput, session, refVars, mounted, modelsLoading,
                 camVars, outcome>>

(***************************************************************************)
(* loadModels.                                                             *)
(***************************************************************************)
LoadModelsResolve ==
  /\ modelsLoading
  /\ modelsLoading' = FALSE
  /\ isModelLoaded' = IF mounted THEN TRUE ELSE isModelLoaded
  /\ outcome' = Outcome("loadModels", NoError,
                        Toast("AI Model Loaded",
                              "Face detection ready with emotion & recognition"))
  /\ UNCHANGED <<dbVars, net, isCameraOn, faceCount, isDetecting,
                 currentEmotion, matchedFace, savedFaces, faceName,
                 showSaveInput, session, refVars, mounted, camVars>>

ModelLoadingFailedToast(error) ==
  Toast("Model Loading Failed", "Please refresh the page")

LoadModelsReject(error) ==
  /\ modelsLoading
  /\ modelsLoading' = FALSE
  /\ outcome' = Outcome("loadModels", error, ModelLoadingFailedToast(error))
  /\ UNCHANGED <<dbVars, net, stateVars, refVars, mounted, camVars>>

(***************************************************************************)
(* The camera.                                                             *)
(***************************************************************************)
NoHandler == [isCameraOn |-> FALSE, isModelLoaded |-> FALSE, set |-> FALSE]

\* What startCamera, startDetection and detectFaces of the current render
\* read from component state.
Closure ==
  [isCameraOn |-> isCameraOn, isModelLoaded |-> isModelLoaded, set |-> TRUE]

Remove(seq, i) == SubSeq(seq, 1, i - 1) \o SubSeq(seq, i + 1, Len(seq))

\* stopCamera without setIsDetecting(false) (a mutant of StopCameraState).
StopCameraStateKeepsDetecting ==
  /\ isCameraOn' = FALSE
  /\ faceCount' = 0
  /\ currentEmotion' = ""
  /\ matchedFace' = <<>>
  /\ UNCHANGED isDetecting

\* The state setters at the end of stopCamera.
StopCameraState ==
  /\ isCameraOn' = FALSE
  /\ isDetecting' = FALSE
  /\ faceCount' = 0
  /\ currentEmotion' = ""
  /\ matchedFace' = <<>>

\* stopCamera, called with the video element still referenced (has) or not,
\* in a component that is still mounted afterwards (live) or not.
StopCamera(has, live) ==
  /\ IF streamRef # NoStream
       THEN /\ streams' = [streams EXCEPT ![streamRef] = "stopped"]
            /\ streamRef' = NoStream
       ELSE UNCHANGED <<streams, streamRef>>
  /\ IF has
       THEN \* srcObject = null resets the element: a loadedmetadata that was
            \* due for the old source is dropped
            /\ srcObject' = NoStream
            /\ metadataPending' = FALSE
       ELSE UNCHANGED <<srcObject, metadataPending>>
  /\ IF live
       THEN StopCameraState
       ELSE UNCHANGED <<isCameraOn, isDetecting, faceCount, currentEmotion,
                        matchedFace>>

\* A click on the camera button (disabled until the models are loaded).
ToggleCamera ==
  /\ mounted /\ isModelLoaded
  /\ IF isCameraOn
       THEN /\ StopCamera(TRUE, TRUE)
            /\ UNCHANGED <<gumPending, onloadedmetadata, detecting>>
       ELSE \* startCamera runs up to its await
            /\ Len(gumPending) < MaxPending
            /\ gumPending' = Append(gumPending, Closure)
            /\ UNCHANGED <<streams, streamRef, srcObject, metadataPending,
                           isCameraOn, isDetecting, faceCount, currentEmotion,
                           matchedFace, onloadedmetadata, detecting>>
  /\ UNCHANGED <<dbVars, net, isModelLoaded, savedFaces, faceName,
                 showSaveInput, session, currentDescriptorRef, mounted,
                 modelsLoading, outcome>>

\* getUserMedia resolves with a new stream: the continuation of startCamera.
GetUserMediaResolve(i) ==
  /\ i \in 1..Len(gumPending)
  /\ Len(streams) < MaxStreams
  /\ gumPending' = Remove(gumPending, i)
  /\ streams' = Append(streams, "live")
  /\ IF mounted
       THEN /\ srcObject' = Len(streams) + 1
            /\ streamRef' = Len(streams) + 1
            /\ isCameraOn' = TRUE
            /\ onloadedmetadata' = gumPending[i]
            /\ metadataPending' = TRUE
       ELSE UNCHANGED <<srcObject, streamRef, isCameraOn, onloadedmetadata,
                        metadataPending>>
  /\ UNCHANGED <<dbVars, net, isModelLoaded, faceCount, isDetecting,
                 currentEmotion, matchedFace, savedFaces, faceName,
                 showSaveInput, session, currentDescriptorRef, mounted,
                 modelsLoading, detecting, outcome>>

\* getUserMedia rejects: the catch of startCamera.
GetUserMediaReject(i) ==
  /\ i \in 1..Len(gumPending)
  /\ gumPending' = Remove(gumPending, i)
  /\ outcome' = Outcome("startCamera", CameraError,
                   Toast("Camera Access Denied", "Please allow camera access"))
  /\ UNCHANGED <<dbVars, net, stateVars, refVars, mounted, modelsLoading,
                 streams, srcObject, onloadedmetadata, metadataPending,
                 detecting>>

\* The first line of startDetection, with the isModelLoaded of its closure.
StartDetectionGuard(c) == mounted /\ c.isModelLoaded

\* The first line of detectFaces, with the isCameraOn of its closure.  Past
\* it the call awaits the detector, draws, sets the results and asks for the
\* next animation frame.
DetectFacesGuard(c) == mounted /\ c.isCameraOn

\* The video element fires loadedmetadata: the installed handler calls
\* startDetection, which calls detectFaces once.
OnLoadedMetadata ==
  /\ metadataPending /\ onloadedmetadata.set
  /\ metadataPending' = FALSE
  /\ IF StartDetectionGuard(onloadedmetadata)
       THEN /\ isDetecting' = TRUE
            /\ detecting' = IF DetectFacesGuard(onloadedmetadata)
                              THEN detecting + 1 ELSE detecting
       ELSE UNCHANGED <<isDetecting, detecting>>
  /\ UNCHANGED <<dbVars, net, isModelLoaded, isCameraOn, faceCount,
                 currentEmotion, matchedFace, savedFaces, faceName,
                 showSaveInput, session, refVars, mounted, modelsLoading,
                 gumPending, streams, srcObject, onloadedmetadata, outcome>>

\* The component unmounts: the cleanup of the first effect unsubscribes and
\* calls stopCamera; the refs to the elements are already cleared and state
\* setters no longer have an effect.
Unmount ==
  /\ mounted
  /\ mounted' = FALSE
  /\ StopCamera(FALSE, FALSE)
  /\ UNCHANGED <<dbVars, net, isModelLoaded, savedFaces, faceName,
                 showSaveInput, session, currentDescriptorRef, modelsLoading,
                 gumPending, onloadedmetadata, detecting, outcome>>

(***************************************************************************)
(* The page from its mount on.                                             *)
(***************************************************************************)
Init ==
  /\ table = {} /\ nextId = 0 /\ api = NoApiResult
  /\ window = MaxInflight
  /\ net = {}
  /\ isModelLoaded = FALSE /\ isCameraOn = FALSE /\ faceCount = 0
  /\ isDetecting = FALSE /\ currentEmotion = "" /\ matchedFace = <<>>
  /\ savedFaces = <<>> /\ faceName = <<>> /\ showSaveInput = FALSE
  /\ session = NoUser
  /\ streamRef = NoStream /\ currentDescriptorRef = NoDescriptor
  /\ mounted = TRUE /\ modelsLoading = TRUE
  /\ gumPending = <<>> /\ streams = <<>> /\ srcObject = NoStream
  /\ onloadedmetadata = NoHandler /\ metadataPending = FALSE
  /\ detecting = 0
  /\ outcome = NoOutcome

Next ==
  \/ OtherClient
  \/ \E m \in net : ServeSelect(m)
  \/ \E m \in net : ServeDelete(m)
  \/ \E m \in net : ServeFails(m)
  \/ \E s \in Identities : AuthStateChange(s)
  \/ \E m \in net : LoadSavedFacesResume(m)
  \/ \E id \in RowIds : HandleDeleteFace(id)
  \/ \E m \in net : HandleDeleteFaceResume(m)
  \/ LoadModelsResolve
  \/ LoadModelsReject(LibraryError)
  \/ ToggleCamera
  \/ \E i \in 1..MaxPending : GetUserMediaResolve(i)
  \/ \E i \in 1..MaxPending : GetUserMediaReject(i)
  \/ OnLoadedMetadata
  \/ Unmount

Spec == Init /\ [][Next]_vars

(***************************************************************************)
(* Next is a product of parts that do not read each other's variables: the *)
(* persistence actions leave the camera variables unchanged, the camera    *)
(* actions leave the table, the network and savedFaces unchanged, and      *)
(* loadModels only enables the camera button.  The parts are checked on    *)
(* their own.                                                              *)
(***************************************************************************)

\* Persistence: the backend, the session, loadSavedFaces, handleDeleteFace.
NextData ==
  \/ OtherClient
  \/ \E m \in net : ServeSelect(m)
  \/ \E m \in net : ServeDelete(m)
  \/ \E m \in net : ServeFails(m)
  \/ \E s \in Identities : AuthStateChange(s)
  \/ \E m \in net : LoadSavedFacesResume(m)
  \/ \E id \in RowIds : HandleDeleteFace(id)
  \/ \E m \in net : HandleDeleteFaceResume(m)

SpecData == Init /\ [][NextData]_vars

\* The camera: loadModels, toggleCamera, startCamera, stopCamera,
\* startDetection, the unmount.
NextCamera ==
  \/ LoadModelsResolve
  \/ LoadModelsReject(LibraryError)
  \/ ToggleCamera
  \/ \E i \in 1..MaxPending : GetUserMediaResolve(i)
  \/ \E i \in 1..MaxPending : GetUserMediaReject(i)
  \/ OnLoadedMetadata
  \/ Unmount

SpecCamera == Init /\ [][NextCamera]_vars

(***************************************************************************)
(* The save handlers.  The Save button is rendered only once the Save Face *)
(* button was clicked, which is enabled only while currentDescriptorRef    *)
(* holds a descriptor, which only detectFaces sets: under Spec none of     *)
(* these handlers is ever called (NoSaveControls below).  Their contract   *)
(* is checked from every component state in which the name input is open:  *)
(* whatever holds from all of them holds from each one a page can be in.   *)
(***************************************************************************)
InitHandlers ==
  /\ table = {} /\ nextId = 0 /\ api = NoApiResult
  /\ window = MaxInflight
  /\ net = {}
  /\ session \in Identities
  /\ currentDescriptorRef \in Descriptors \cup {NoDescriptor}
  /\ faceName \in NameInputs
  /\ showSaveInput = TRUE
  /\ savedFaces = <<>>
  \* the camera is on and the models are loaded
  /\ isModelLoaded = TRUE /\ modelsLoading = FALSE
  /\ isCameraOn = TRUE /\ isDetecting = TRUE
  /\ faceCount = 0 /\ currentEmotion = "" /\ matchedFace = <<>>
  /\ streams = <<"live">> /\ streamRef = 1 /\ srcObject = 1
  /\ gumPending = <<>> /\ metadataPending = FALSE /\ detecting = 0
  /\ onloadedmetadata =
       [isCameraOn |-> FALSE, isModelLoaded |-> TRUE, set |-> TRUE]
  /\ mounted = TRUE
  /\ outcome = NoOutcome

NextHandlers ==
  \/ HandleSaveFace
  \/ \E v \in NameInputs : SetFaceName(v)
  \/ ToggleSaveInput
  \/ \E m \in net : ServeInsert(m)
  \/ \E m \in net : ServeSelect(m)
  \/ \E m \in net : ServeFails(m)
  \/ \E m \in net : HandleSaveFaceResume(m)
  \/ \E m \in net : LoadSavedFacesResume(m)

SpecHandlers == InitHandlers /\ [][NextHandlers]_vars

\* Every operation that can fail in the external library or the service:
\* loadModels, loadSavedFaces, handleSaveFace, handleDeleteFace.  The
\* component is the one of Init, its models still loading, but for the save
\* inputs, which are drawn as in InitHandlers.
InitErrors ==
  /\ table = {} /\ nextId = 0 /\ api = NoApiResult
  /\ window = MaxInflight
  /\ net = {}
  /\ session \in Identities
  /\ currentDescriptorRef \in Descriptors \cup {NoDescriptor}
  /\ faceName \in NameInputs
  /\ showSaveInput = TRUE
  /\ savedFaces = <<>>
  /\ isModelLoaded = FALSE /\ modelsLoading = TRUE
  /\ isCameraOn = FALSE /\ isDetecting = FALSE
  /\ faceCount = 0 /\ currentEmotion = "" /\ matchedFace = <<>>
  /\ streams = <<>> /\ streamRef = NoStream /\ srcObject = NoStream
  /\ gumPending = <<>> /\ metadataPending = FALSE /\ detecting = 0
  /\ onloadedmetadata = NoHandler
  /\ mounted = TRUE
  /\ outcome = NoOutcome

NextErrors ==
  \/ LoadModelsResolve
  \/ LoadModelsReject(LibraryError)
  \/ HandleSaveFace
  \/ \E m \in net : ServeInsert(m)
  \/ \E m \in net : ServeSelect(m)
  \/ \E m \in net : ServeDelete(m)
  \/ \E m \in net : ServeFails(m)
  \/ \E m \in net : HandleSaveFaceResume(m)
  \/ \E m \in net : LoadSavedFacesResume(m)
  \/ \E id \in RowIds : HandleDeleteFace(id)
  \/ \E m \in net : HandleDeleteFaceResume(m)

SpecErrors == InitErrors /\ [][NextErrors]_vars

(***************************************************************************)
(* Overlapping calls of one signed-in user.  The table holds rows saved    *)
(* earlier, the list has been loaded, nothing is in flight, and nobody but *)
(* this page changes the table: a state of Spec after sign-in, when the    *)
(* other clients have gone quiet.  The connection takes one request more   *)
(* than in Init, so that the reload after one delete can overlap the next  *)
(* delete and its reload.                                                  *)
(***************************************************************************)
SavedRow(i, owner) ==
  [id |-> i, user_id |-> owner, name |-> <<"a">>, descriptor |-> <<1, 2>>,
   created_at |-> i, inserted_by |-> owner]

InitReorder ==
  /\ \E owner \in [1..MaxRows -> Users] :
       table = {SavedRow(i, owner[i]) : i \in 1..MaxRows}
  /\ nextId = MaxRows /\ api = NoError
  /\ window = MaxInflight + 1
  /\ net = {}
  /\ session \in Users
  /\ savedFaces = DbSelect(session, session)
  /\ isModelLoaded = FALSE /\ isCameraOn = FALSE /\ faceCount = 0
  /\ isDetecting = FALSE /\ currentEmotion = "" /\ matchedFace = <<>>
  /\ faceName = <<>> /\ showSaveInput = FALSE
  /\ streamRef = NoStream /\ currentDescriptorRef = NoDescriptor
  /\ mounted = TRUE /\ modelsLoading = TRUE
  /\ gumPending = <<>> /\ streams = <<>> /\ srcObject = NoStream
  /\ onloadedmetadata = NoHandler /\ metadataPending = FALSE
  /\ detecting = 0
  /\ outcome = Outcome("loadSavedFaces", NoError, NoToast)

NextReorder ==
  \/ \E id \in RowIds : HandleDeleteFace(id)
  \/ \E m \in net : ServeDelete(m)
  \/ \E m \in net : HandleDeleteFaceResume(m)
  \/ \E m \in net : ServeSelect(m)
  \/ \E m \in net : LoadSavedFacesResume(m)

SpecReorder == InitReorder /\ [][NextReorder]_vars

(***************************************************************************)
(* What the detection loop and the save controls never do under Spec.      *)
(***************************************************************************)

\* detectFaces never passes its first line: the handler installed by
\* startCamera belongs to the render in which toggleCamera found the camera
\* off.
NoDetectionStarts ==
  /\ detecting = 0
  /\ onloadedmetadata.set => ~onloadedmetadata.isCameraOn
  /\ \A i \in 1..Len(gumPending) : ~gumPending[i].isCameraOn

\* No detection result is ever stored, so the Save Face button stays
\* disabled and the name input is never opened.
NoSaveControls ==
  /\ currentDescriptorRef = NoDescriptor
  /\ ~showSaveInput /\ faceName = <<>>
  /\ faceCount = 0 /\ currentEmotion = "" /\ matchedFace = <<>>
  /\ \A m \in net : m.op # "insert"

(***************************************************************************)
(* Claims.                                                                 *)
(***************************************************************************)
SelectResponses == {m \in net : m.stage = "response" /\ m.op = "select"}

Owned(rows, uid) == \A i \in 1..Len(rows) : rows[i].user_id = uid

\* C1 (read isolation): a select sent by identity u returns only rows whose
\* user_id is u, a select sent without an identity returns no row, and
\* loadSavedFaces puts into savedFaces only rows owned by the identity that
\* sent its select.
C1_ReadIsolation ==
  /\ [](\A m \in SelectResponses :
          /\ Owned(m.rows, m.uid)
          /\ m.uid = NoUser => m.rows = <<>>)
  /\ [][\A m \in net :
          (LoadSavedFacesResume(m) /\ savedFaces' # savedFaces)
            => Owned(savedFaces', m.uid)]_vars

\* C1, its case: a select was answered with no row although the table holds
\* rows that match its filter: they belong to somebody else than the sender.
C1_Witness ==
  \E m \in SelectResponses :
    /\ m.error = NoError /\ m.rows = <<>> /\ m.uid # m.user
    /\ \E r \in table : r.user_id = m.user

\* C2 (insert isolation): an insert whose user_id is not the identity of its
\* sender, or that is sent without an identity, is rejected and leaves the
\* table unchanged; every row of the table was inserted by the identity its
\* user_id names.
C2_InsertIsolation ==
  /\ [](\A r \in table : r.inserted_by = r.user_id /\ r.inserted_by \in Users)
  /\ [][\A uid \in Identities, p \in OtherPayloads :
          (ApiInsert(uid, p) /\ uid # p.user_id)
            => (table' = table /\ api' = PolicyError)]_vars

\* C2, its case: the last insert of another client was rejected and the
\* table, which holds rows, has none that its sender did not own.
C2_Witness ==
  /\ api = PolicyError
  /\ table # {}
  /\ \A r \in table : r.inserted_by = r.user_id

\* C3 (delete isolation): serving the delete of handleDeleteFace(id) removes
\* at most the row with that id and only if the sender owns it; otherwise
\* every row stays.
C3_DeleteIsolation ==
  [][\A m \in net :
       ServeDelete(m) =>
         /\ table' \subseteq table
         /\ \A r \in table \ table' : r.id = m.id /\ r.user_id = m.uid
         /\ Cardinality(table \ table') <= 1
         /\ (\A r \in table : r.id = m.id => r.user_id # m.uid)
              => table' = table]_vars

\* C3, its case: a delete sent by one identity for the row of another was
\* served without an error and the row is still there.
C3_Witness ==
  \E m \in net :
    /\ m.op = "delete" /\ m.stage = "response" /\ m.error = NoError
    /\ m.uid # NoUser
    /\ \E r \in table : r.id = m.id /\ r.user_id # m.uid

\* C4 (no save without a session): a call of handleSaveFace in a state
\* whose session is null sends no request and leaves the table unchanged,
\* whatever currentDescriptorRef and faceName hold; no insert request is
\* ever in flight without an identity.
C4_NoSaveWithoutSession ==
  /\ [](\A m \in net : m.op = "insert" => m.uid # NoUser)
  /\ [][(HandleSaveFace /\ session = NoUser)
          => (net' = net /\ table' = table)]_vars

\* C4, its case: handleSaveFace was called without a session while a
\* descriptor and a name were there, and only asked the user to sign in.
C4_Witness ==
  /\ session = NoUser
  /\ outcome.toast.title = "Authentication Required"
  /\ currentDescriptorRef # NoDescriptor /\ Trim(faceName) # <<>>
  /\ net = {} /\ table = {}

\* C5 (the feed is analysed): once the camera is on and the loadedmetadata
\* handler has started the detection (isDetecting), a detectFaces call is
\* under way: awaiting the detector or the next animation frame.
C5_DetectionRuns ==
  (mounted /\ isCameraOn /\ isDetecting) => detecting > 0

ServiceOps == {"loadModels", "loadSavedFaces", "saveFace", "deleteFace"}

\* C7 as stated: every error of model loading, loading saved faces, saving
\* or deleting is shown to the user with the error's own message.
C7_ErrorsVerbatim ==
  (outcome.op \in ServiceOps /\ outcome.error # NoError)
    => (outcome.toast # NoToast /\ outcome.toast.description = outcome.error)

\* C7 as amended: an error of saving or of deleting a face is shown with the
\* error's own message unchanged; an error of model loading is shown as the
\* fixed text "Please refresh the page"; an error of loading the saved faces
\* is not shown at all.
C7_ErrorsSurfaced ==
  (outcome.op \in ServiceOps /\ outcome.error # NoError) =>
    /\ outcome.op = "deleteFace" =>
         outcome.toast = Toast("Delete Failed", outcome.error)
    /\ outcome.op = "saveFace" =>
         outcome.toast = Toast("Save Failed", outcome.error)
    /\ outcome.op = "loadModels" =>
         outcome.toast = Toast("Model Loading Failed",
                               "Please refresh the page")
    /\ outcome.op = "loadSavedFaces" => outcome.toast = NoToast

\* C7, its case: a delete failed in the service and its toast is up.
C7_Witness ==
  /\ outcome.op = "deleteFace"
  /\ outcome.error = ServiceError
  /\ outcome.toast.description = ServiceError

\* C10 (camera off): while isCameraOn is false, isDetecting is false,
\* faceCount is 0 and currentEmotion and matchedFace are empty.
C10_OffMeansIdle ==
  ~isCameraOn =>
    /\ ~isDetecting
    /\ faceCount = 0
    /\ currentEmotion = ""
    /\ matchedFace = <<>>

\* C10, its case: stopCamera has stopped a stream of the mounted component,
\* the camera is off, and a later getUserMedia call is still pending.
C10_Witness ==
  /\ mounted /\ ~isCameraOn
  /\ \E i \in 1..Len(streams) : streams[i] = "stopped"
  /\ gumPending # <<>>

\* C11 (no stream is leaked): once the camera is off or the component is
\* unmounted, and no getUserMedia call is pending, every stream that
\* startCamera acquired has had its tracks stopped.
C11_NoStreamLeak ==
  ((~isCameraOn \/ ~mounted) /\ gumPending = <<>>)
    => \A i \in 1..Len(streams) : streams[i] = "stopped"

\* C12 (saved faces never cross users): while there is a session, every
\* entry of savedFaces is a row owned by the user of that session.
C12_SavedFacesOwned ==
  session # NoUser => Owned(savedFaces, session)

\* C13 (the list follows the table): for one signed-in user whose
\* handleDeleteFace calls are the only changes of the table, once no request
\* or response is in flight and none has failed, savedFaces is the rows of
\* the table owned by that user, newest first.
C13_ListMatchesTable ==
  net = {} => savedFaces = DbSelect(session, session)

Blank(str) == \A i \in 1..Len(str) : str[i] = " "

SaveFrame == <<table, faceName, showSaveInput, savedFaces>>

SameElements(a, d) ==
  /\ Len(a) = Len(d)
  /\ \A i \in 1..Len(d) : a[i] = d[i]

\* C15 (a successful save): a call of handleSaveFace that passes its checks
\* sends one insert carrying the session user's id, the name as entered and
\* a copy of the descriptor held at that moment, element for element; the
\* service adds exactly one row with these three values; once the insert
\* has come back without an error, faceName is empty, the name input is
\* hidden and a select reloading the saved faces is in flight.
C15_SuccessfulSave ==
  /\ [][(HandleSaveFace /\ session # NoUser
           /\ currentDescriptorRef # NoDescriptor /\ ~Blank(faceName))
          => /\ Cardinality(net' \ net) = 1
             /\ \A m \in net' \ net :
                  /\ m.op = "insert" /\ m.stage = "request"
                  /\ m.payload.user_id = session
                  /\ m.payload.name = faceName
                  /\ SameElements(m.payload.descriptor,
                                  currentDescriptorRef)]_vars
  /\ [][\A m \in net :
          (ServeInsert(m) /\ \E q \in net' \ net : q.error = NoError)
            => /\ Cardinality(table') = Cardinality(table) + 1
               /\ table \subseteq table'
               /\ \A r \in table' \ table :
                    /\ r.user_id = m.cs
                    /\ r.name = m.payload.name
                    /\ SameElements(r.descriptor, m.payload.descriptor)]_vars
  /\ [][\A m \in net :
          (HandleSaveFaceResume(m) /\ m.error = NoError)
            => /\ faceName' = <<>>
               /\ ~showSaveInput'
               /\ \E q \in net' :
                    /\ q.op = "select" /\ q.stage = "request"
                    /\ q.user = m.cs]_vars

\* C15, its case: a face was saved under a name with a leading blank; the
\* row is in the table with the name as typed, the input is cleared and
\* hidden, and the reload is in flight.
C15_Witness ==
  /\ outcome.op = "saveFace" /\ outcome.error = NoError
  /\ outcome.toast.name = <<" ", "b">>
  /\ faceName = <<>> /\ ~showSaveInput
  /\ \E r \in table :
       /\ r.user_id = session /\ r.name = <<" ", "b">>
       /\ r.descriptor \in Descriptors
  /\ \E q \in net : q.op = "select" /\ q.stage = "request"

=============================================================================
